---- MODULE Spec2Model ----
(***************************************************************************)
(* The render-queue executor of BatchRender.py:                            *)
(* BatchRenderDialog.start_batch_render, run once with pre_check = True    *)
(* (the nested call of line 1780) and then, if that call returned a truthy *)
(* value, once with pre_check = False.                                     *)
(*                                                                         *)
(* The handler blocks at every host call (rt.render, the modal prompt of   *)
(* warn_render_settings_open), so it is cut into steps at those calls:     *)
(* Invoke, MainPrologue, RowStep, FrameStep, FinishPass.  What the host    *)
(* answers at a call (is the camera found, does the directory exist, was   *)
(* the frame canceled, ...) is read at the call and drawn there.           *)
(***************************************************************************)
EXTENDS Integers, Sequences, FiniteSets, TLC

\* Bounds of the model.
MaxRows == 3            \* rows of the table
MaxFrames == 2          \* last frame of an entry's "1:end" range
MaxHostRows == 1        \* rows of a table whose entries carry overrides
MaxClockRows == 2       \* rows of a table rendered while the clock runs
MaxClock == 3           \* last reading of the clock
MaxDigit == 3           \* largest digit of a frame number typed into a Range cell
MaxDupes == 2           \* largest duplicate number of a file on the disk
MaxPicked == 2          \* largest frame number in a picked-frames string
MaxParts == 2           \* parts of a picked-frames string
MaxTokens == 2          \* pieces of a render name: texts and replacement flags

\* Program constants.
max_canceled_before_exit == 2
DEFAULT_PATH_TEXT == "Default Path + Name"
LITERAL_PATH == ".\\renders\\shot.exr"
DEBUG_disable_rendering == FALSE

VARIABLES
    table,                   \* tableWidget: the rows, in table order
    renderSceneDialog_open,  \* host: rt.renderSceneDialog.isOpen()
    pc,                      \* position of the handler
    pass,                    \* "none" | "precheck" | "commit": the call that is running
    row_id,                  \* 1-based index of the row the loop is at
    x,                       \* 1-based index into the entry's frame sequence
    total_rows_to_render,
    rendered_rows,
    canceled_renders,
    render_queue_canceled,
    python_render_error,
    close_renderSceneDialog,
    precheck_result,         \* what start_batch_render(True) returned
    result,                  \* what start_batch_render(False) returned
    last_log,                \* the closing message of the pass, "" if none yet
    last,                    \* the most recent do_render call of the run
    checked,                 \* rows whose pipeline was entered in this pass
    frame_failed,            \* some do_render of this run returned 2
    renderSize,              \* host: <<rt.renderWidth, rt.renderHeight>>
    renderPixelAspect,       \* host: rt.renderPixelAspect
    sceneState,              \* host: the scene state or state set last restored
    original_renderSize,     \* <<original_renderWidth, original_renderHeight>>
    before_entry,            \* the host settings when the loop came to the last enabled row
    prompts,                 \* the calls of warn_render_settings_open made by the last step
    clock,                   \* host: datetime.now(), in ticks
    formatted_time,          \* the timestamp of the entry being processed
    helper,                  \* a call of one of main's helpers, with its arguments
    ret,                     \* <<>> until the call has returned, then <<its result>>
    dialog,                  \* BatchRenderDialog: table cells, selection, guard, saved data
    worker                   \* the log window's Worker, with the pipe it reads

hostVars == <<renderSize, renderPixelAspect, sceneState>>

\* Everything the handler reads or writes; the clock is the host's alone.
handlerVars ==
    <<table, renderSceneDialog_open, pc, pass, row_id, x, total_rows_to_render,
      rendered_rows, canceled_renders, render_queue_canceled, python_render_error,
      close_renderSceneDialog, precheck_result, result, last_log, last, checked,
      frame_failed, renderSize, renderPixelAspect, sceneState, original_renderSize,
      before_entry, prompts, formatted_time>>

fnVars == <<helper, ret>>

guiVars == <<dialog, worker>>

vars == <<handlerVars, clock, fnVars, guiVars>>

----------------------------------------------------------------------------
\* Python values a call can return, and their truth value.

Pending == [kind |-> "pending", val |-> 0]
None == [kind |-> "None", val |-> 0]
False == [kind |-> "bool", val |-> 0]
True == [kind |-> "bool", val |-> 1]
Raised == [kind |-> "raised", val |-> 0]
PyInt(n) == [kind |-> "int", val |-> n]

Truthy(v) == v.val # 0

pre_check == pass = "precheck"

----------------------------------------------------------------------------
\* The table.

\* The columns the executor reads.  Of a row whose Use box is unchecked it
\* reads nothing else, so the other columns of such a row are held at one value.
AllEntries ==
    [Use : BOOLEAN,
     Output_Path : {DEFAULT_PATH_TEXT, LITERAL_PATH},
     Range : {<<<<1>>, <<n>>>> : n \in 0..MaxFrames},
     Name : {"Default", "shot_{Pixel Aspect}"},
     Pixel_Aspect : {"Default", "2.0"},
     Scene_State : {"", "Night"},
     Render_Preset : {"", "final.rps"}]

NoOverride(e) ==
    /\ e.Name = "Default"
    /\ e.Pixel_Aspect = "Default" /\ e.Scene_State = "" /\ e.Render_Preset = ""

\* Entries without overrides, with every output path and frame range.
Entries ==
    {e \in AllEntries :
        /\ NoOverride(e)
        /\ ~e.Use => (e.Output_Path = DEFAULT_PATH_TEXT /\ e.Range = <<<<1>>, <<1>>>>)}

Tables == UNION {[1..n -> Entries] : n \in 0..MaxRows}

\* Entries with every combination of overrides, two frames each, written to the
\* default path.
HostEntries ==
    {e \in AllEntries :
        /\ e.Output_Path = DEFAULT_PATH_TEXT
        /\ e.Range = <<<<1>>, <<2>>>>
        /\ ~e.Use => NoOverride(e)}

HostTables == UNION {[1..n -> HostEntries] : n \in 0..MaxHostRows}

\* int() of a text of decimal digits, the text being the sequence of its digits.
RECURSIVE int(_)
int(text) ==
    IF Len(text) = 0 THEN 0
    ELSE 10 * int(SubSeq(text, 1, Len(text) - 1)) + text[Len(text)]

\* The frames of Python's range(start, stop, step).
RECURSIVE range_frames(_, _, _)
range_frames(start, stop, step) ==
    IF start >= stop THEN <<>>
    ELSE <<start>> \o range_frames(start + step, stop, step)

\* The two kinds of object get_frame_range returns: a list, and a range with
\* its start, its exclusive stop and its step.
py_list(frames) ==
    [type |-> "list", start |-> 0, stop |-> 0, step |-> 0, frames |-> frames]
py_range(start, stop, step) ==
    [type |-> "range", start |-> start, stop |-> stop, step |-> step,
     frames |-> range_frames(start, stop, step)]

\* Mutant: the range stops before the end frame.
get_frame_range_without_end(frame_range) ==
    IF frame_range[1] = frame_range[Len(frame_range)]
    THEN py_list(<<int(frame_range[1])>>)
    ELSE py_range(int(frame_range[1]), int(frame_range[Len(frame_range)]), 1)
\* get_frame_range for a literal "start:end"; frame_range is the text split
\* at the colon, and the two halves are compared as texts.
get_frame_range(frame_range) ==
    IF frame_range[1] = frame_range[Len(frame_range)]
    THEN py_list(<<int(frame_range[1])>>)
    ELSE py_range(int(frame_range[1]), int(frame_range[Len(frame_range)]) + 1, 1)

\* A character of a text that is no digit; the digits are 0..9.
LETTER == 10

\* int(text) raises ValueError: the text is empty or holds a character that is
\* no digit.
int_raises(text) == Len(text) = 0 \/ \E i \in 1..Len(text) : text[i] > 9

\* Lines 1393-1397 for one part of the string, the part being what
\* part.split('-') gives: a part without '-' is one piece, and a part with '-'
\* must unpack into two integers.
part_raises(part) ==
    \/ Len(part) > 2
    \/ \E i \in 1..Len(part) : int_raises(part[i])

part_frames(part) ==
    IF Len(part) = 1 THEN <<int(part[1])>>
    ELSE range_frames(int(part[1]), int(part[2]) + 1, 1)

\* The frames of a list without the ones already met.
RECURSIVE without_repeats(_)
without_repeats(frames) ==
    IF Len(frames) = 0 THEN <<>>
    ELSE LET front == without_repeats(SubSeq(frames, 1, Len(frames) - 1))
             f == frames[Len(frames)]
         IN  IF \E i \in 1..Len(front) : front[i] = f THEN front ELSE Append(front, f)

\* The loop of lines 1392-1397: result after the parts, from the first on.
RECURSIVE extend_result(_)
extend_result(parts) ==
    IF Len(parts) = 0 THEN <<>>
    ELSE part_frames(parts[1]) \o extend_result(Tail(parts))

\* Mutant: a frame number written twice is kept once.
parse_number_string_without_repeats(number_string) ==
    IF \E i \in 1..Len(number_string) : part_raises(number_string[i])
    THEN [raised |-> "ValueError", result |-> <<>>]
    ELSE [raised |-> "none", result |-> without_repeats(extend_result(number_string))]
\* parse_number_string; number_string is what split(',') gives.
parse_number_string(number_string) ==
    IF \E i \in 1..Len(number_string) : part_raises(number_string[i])
    THEN [raised |-> "ValueError", result |-> <<>>]
    ELSE [raised |-> "none", result |-> extend_result(number_string)]

\* str() of a frame number, and ', '.join of the frame numbers.
RECURSIVE join_frames(_)
join_frames(frames) ==
    IF Len(frames) = 0 THEN ""
    ELSE IF Len(frames) = 1 THEN ToString(frames[1])
    ELSE ToString(frames[1]) \o ", " \o join_frames(Tail(frames))

\* get_frame_range_display: a range of step 1 shows its start and its stop.
get_frame_range_display(frame_range) ==
    IF frame_range.type = "range" /\ frame_range.step = 1
    THEN ToString(frame_range.start) \o "-" \o ToString(frame_range.stop)
    ELSE join_frames(frame_range.frames)

EnabledRows == {r \in 1..Len(table) : table[r].Use}

----------------------------------------------------------------------------
\* What the host answers while one entry is prepared.
\* proceed: the answer to the blank-value prompt, when the prompt is shown.
HostFacts ==
    [camera : BOOLEAN, scene_state : BOOLEAN, proceed : {True, False, None},
     name : BOOLEAN, directory : BOOLEAN]

\* Lines 1466-1481: a replacement flag of the render name stands for a column
\* that is empty or "Default".
has_blank_values(entry) ==
    entry.Name = "shot_{Pixel Aspect}" /\ entry.Pixel_Aspect = "Default"

\* Line 1483: the blank-value prompt of get_valid_filename is shown.
blank_prompt(blank_values, is_pre_check) == blank_values /\ is_pre_check

\* A text is the sequence of its characters.
DEFAULT_TEXT == <<"D", "e", "f", "a", "u", "l", "t">>
default_text == <<"d", "e", "f", "a", "u", "l", "t">>
CAM01_SHOT010 == <<"C", "a", "m", "0", "1", "_", "S", "h", "o", "t", "0", "1", "0">>

\* str.lower() on the letters the texts here are written with.
lower_char(c) ==
    CASE c = "C" -> "c" [] c = "D" -> "d" [] c = "N" -> "n" [] c = "S" -> "s"
      [] OTHER -> c

lower(text) == [i \in 1..Len(text) |-> lower_char(text[i])]

\* A Python str, beside None.
str(text) == [kind |-> "str", val |-> text]

\* A render name as the sequence of its pieces: a text, or a replacement flag
\* written as in replace_flags (exact) or in another case.
text_piece(text) == [kind |-> "text", flag |-> "", exact |-> TRUE, chars |-> text]
flag_piece(flag, exact) == [kind |-> "flag", flag |-> flag, exact |-> exact, chars |-> <<>>]

\* The keys of replace_flags in the order of lines 1466-1472, and the column
\* each stands for.
REPLACE_FLAGS ==
    <<"{Camera}", "{Scene State}", "{State Set}", "{Render Preset}",
      "{Layer Preset}", "{Resolution}", "{Pixel Aspect}">>

flag_value(flag, item_values) ==
    CASE flag = "{Camera}" -> item_values.Camera
      [] flag = "{Scene State}" -> item_values.Scene_State
      [] flag = "{State Set}" -> item_values.Scene_State
      [] flag = "{Render Preset}" -> item_values.Render_Preset
      [] flag = "{Layer Preset}" -> item_values.Layer_Preset
      [] flag = "{Resolution}" -> item_values.Resolution_Display
      [] flag = "{Pixel Aspect}" -> item_values.Pixel_Aspect

\* Line 1458: the camera's name without "_VRayPhysicalCamera"; a camera's name
\* is its text and whether that ending follows it.
strip_camera(camera) == str(camera.chars)

\* Mutant: a flag is found only when written exactly as in replace_flags.
flag_present_exactly(flag, render_name) ==
    \E i \in 1..Len(render_name) :
        /\ render_name[i].kind = "flag"
        /\ render_name[i].flag = flag
        /\ render_name[i].exact
\* Line 1475: replace.lower() in render_name.lower().
flag_present(flag, render_name) ==
    \E i \in 1..Len(render_name) :
        render_name[i].kind = "flag" /\ render_name[i].flag = flag

\* Lines 1476-1479: the text put in for a value, and whether it counts as blank.
value_text(value) == IF value.kind = "None" THEN <<>> ELSE value.val
value_blank(value) == lower(value_text(value)) \in {default_text, <<>>}

\* Line 1481: re.sub(replace, replace_with, render_name, flags=re.IGNORECASE).
re_sub(flag, replace_with, render_name) ==
    [i \in 1..Len(render_name) |->
        IF render_name[i].kind = "flag" /\ render_name[i].flag = flag
        THEN text_piece(replace_with) ELSE render_name[i]]

\* The loop of lines 1474-1481 from the k-th flag on.
RECURSIVE replace_from(_, _, _)
replace_from(k, render_name, item_values) ==
    IF k > Len(REPLACE_FLAGS) THEN [render_name |-> render_name, blank_values |-> FALSE]
    ELSE LET flag == REPLACE_FLAGS[k]
             value == flag_value(flag, item_values)
         IN  IF flag_present(flag, render_name)
             THEN LET blank == value_blank(value)
                      rest == replace_from(k + 1,
                                  re_sub(flag, IF blank THEN <<>> ELSE value_text(value),
                                         render_name),
                                  item_values)
                  IN  [render_name |-> rest.render_name,
                       blank_values |-> blank \/ rest.blank_values]
             ELSE replace_from(k + 1, render_name, item_values)

\* The characters of a name without flags.
RECURSIVE chars_of(_)
chars_of(render_name) ==
    IF Len(render_name) = 0 THEN <<>>
    ELSE render_name[1].chars \o chars_of(Tail(render_name))

\* Line 1493.
invalid_chars == {"\\", "/", ":", "*", "?", "<", ">", "|", "\""}

\* Mutant: a name that starts with a dot is let through.
render_name_invalid_unless_hidden(render_name) ==
    \/ Len(render_name) = 0
    \/ \E i \in 1..Len(render_name) : render_name[i] \in invalid_chars
\* Line 1494.
render_name_invalid(render_name) ==
    \/ Len(render_name) = 0
    \/ \E i \in 1..Len(render_name) : render_name[i] \in invalid_chars
    \/ render_name[1] = "."

\* get_valid_filename on the texts: name is the Name cell, row the values of
\* the row's other columns, answer what the blank-value prompt returns when
\* it is shown.
get_valid_filename_text(name, row, is_pre_check, answer) ==
    LET item_values == [row EXCEPT !.Camera = strip_camera(row.Camera)]
        start == IF name = <<text_piece(DEFAULT_TEXT)>>
                 THEN <<flag_piece("{Camera}", TRUE)>> ELSE name
        replaced == replace_from(1, start, item_values)
        render_name == chars_of(replaced.render_name)
        prompted == blank_prompt(replaced.blank_values, is_pre_check)
    IN  [blank_values |-> replaced.blank_values,
         prompted |-> prompted,
         render_name |-> render_name,
         raised |->
            IF prompted /\ ~Truthy(answer) THEN "ValueError"
            ELSE IF render_name_invalid(render_name) THEN "ValueError"
            ELSE "none",
         message |->
            IF prompted /\ ~Truthy(answer) THEN "Canceled because of blank replacement flags"
            ELSE IF render_name_invalid(render_name) THEN "Image name invalid!"
            ELSE ""]

\* The facts main looks up for one entry: a scene state is looked up when the
\* entry names one, a render preset is loaded when the entry names one, and the
\* prompt has an answer when it is shown.
HostFactsFor(entry, is_pre_check) ==
    {h \in HostFacts :
        /\ entry.Scene_State = "" => h.scene_state
        /\ ~blank_prompt(has_blank_values(entry), is_pre_check) => h.proceed = None}

\* get_valid_filename: "ok" or "ValueError".
get_valid_filename(entry, host, is_pre_check) ==
    IF blank_prompt(has_blank_values(entry), is_pre_check) /\ ~Truthy(host.proceed)
    THEN "ValueError"
    ELSE IF ~host.name THEN "ValueError"
    ELSE "ok"

\* get_output_path: "ok", "ValueError" or "UnboundLocalError".  With a literal
\* path output_path_png is never assigned, and reading it at line 1509 raises
\* before the directory is looked at.
get_output_path(output_path, directory_exists) ==
    IF output_path # DEFAULT_PATH_TEXT THEN "UnboundLocalError"
    ELSE IF ~directory_exists THEN "ValueError"
    ELSE "ok"

\* Lines 1824-1845: the stages in the order the code runs them; the first one
\* that raises ends the entry.
prepare_entry(entry, host, is_pre_check) ==
    IF ~host.camera THEN "ValueError"
    ELSE IF entry.Scene_State # "" /\ ~host.scene_state THEN "ValueError"
    ELSE IF get_valid_filename(entry, host, is_pre_check) = "ValueError" THEN "ValueError"
    ELSE get_output_path(entry.Output_Path, host.directory)

\* The prompts get_valid_filename shows when line 1844 is reached.
name_prompts(entry, host, is_pre_check) ==
    IF /\ host.camera
       /\ (entry.Scene_State = "" \/ host.scene_state)
       /\ blank_prompt(has_blank_values(entry), is_pre_check)
    THEN {[kind |-> "blank", answer |-> host.proceed]}
    ELSE {}

\* Mutant: the existing-file prompt is shown in the commit pass too.
dupe_prompt_in_any_pass(dupe_count, is_pre_check) == dupe_count > 0
\* Line 1636: the existing-file prompt of prevent_duplicate_files is shown.
dupe_prompt(dupe_count, is_pre_check) == is_pre_check /\ dupe_count > 0

\* The prompts of the two calls of lines 1859-1860; the answer to this prompt,
\* whose only button is OK, is not read.
file_prompts(exr_dupes, png_dupes, is_pre_check) ==
    {[kind |-> "exists", answer |-> True] :
        d \in {n \in {exr_dupes, png_dupes} : dupe_prompt(n, is_pre_check)}}

\* The numbers of existing files a probe can meet, one for each way the call
\* goes on: a count whose prompt is not shown has the effect of no file.
DupeCounts(is_pre_check) == {n \in 0..1 : n = 0 \/ dupe_prompt(n, is_pre_check)}

\* f"{int(frame):04d}".
frame_04d(frame) ==
    IF frame < 10 THEN "000" \o ToString(frame)
    ELSE IF frame < 100 THEN "00" \o ToString(frame)
    ELSE IF frame < 1000 THEN "0" \o ToString(frame)
    ELSE ToString(frame)

\* Lines 1632-1633: dupe_count_str for a dupe_count.
dupe_count_str(dupe_count) ==
    IF dupe_count = 0 THEN "" ELSE " (" \o ToString(dupe_count) \o ")"

\* Lines 1623-1624: the file name probed with a dupe_count; output_path is
\* the path already split into directory, filename and file_extension.
file_name_for(output_path, frame, time, dupe_count) ==
    output_path.filename \o "_" \o frame_04d(frame) \o "_" \o time
        \o dupe_count_str(dupe_count) \o output_path.file_extension

file_path_for(output_path, frame, time, dupe_count) ==
    output_path.directory \o "\\" \o file_name_for(output_path, frame, time, dupe_count)

\* Mutant: the name with " (1)" is taken without looking whether it exists.
RECURSIVE probe_once(_, _, _, _, _)
probe_once(output_path, frame, time, disk, dupe_count) ==
    IF dupe_count = 0 /\ file_path_for(output_path, frame, time, dupe_count) \in disk
    THEN probe_once(output_path, frame, time, disk, dupe_count + 1)
    ELSE dupe_count
\* The loop of lines 1621-1634: the dupe_count it ends with.
RECURSIVE probe(_, _, _, _, _)
probe(output_path, frame, time, disk, dupe_count) ==
    IF file_path_for(output_path, frame, time, dupe_count) \in disk
    THEN probe(output_path, frame, time, disk, dupe_count + 1)
    ELSE dupe_count

\* prevent_duplicate_files on a disk, the set of the paths that exist.
prevent_duplicate_files(output_path, frame, time, disk) ==
    LET dupe_count == probe(output_path, frame, time, disk, 0) IN
    [file_path |-> file_path_for(output_path, frame, time, dupe_count),
     file_name |-> file_name_for(output_path, frame, time, dupe_count),
     dupe_count |-> dupe_count]

\* Line 1856: datetime.now().strftime("%y-%m-%dT%H.%M.%S") keeps whole seconds.
TicksPerSecond == 2
strftime(now) == now \div TicksPerSecond

\* Mutant: each frame's file names carry the time of that frame.
file_timestamp_per_frame(entry_time, now) == strftime(now)
\* Lines 1859-1860: the timestamp put into a frame's file names.
file_timestamp(entry_time, now) == entry_time

\* The sizes the host can hold; a render preset carries one of them.
RenderSizes == {<<640, 480>>, <<1920, 1080>>}

PresetSizes(entry) == IF entry.Render_Preset = "" THEN {renderSize} ELSE RenderSizes

\* The host settings after the stages of lines 1824-1842 that were reached:
\* get_pixel_aspect (1837) and get_and_set_scene_state (1840) run once the camera
\* is found, get_and_set_render_preset (1841) once the scene state is restored.
\* loaded is the size the preset file carries.
entry_settings(entry, host, loaded) ==
    LET scene_ok == entry.Scene_State = "" \/ host.scene_state IN
    [renderPixelAspect |->
        IF host.camera /\ entry.Pixel_Aspect # "Default"
        THEN entry.Pixel_Aspect ELSE renderPixelAspect,
     sceneState |->
        IF host.camera /\ entry.Scene_State # "" /\ host.scene_state
        THEN entry.Scene_State ELSE sceneState,
     renderSize |->
        IF host.camera /\ scene_ok /\ entry.Render_Preset # ""
        THEN loaded ELSE renderSize]

HostSettings ==
    [renderSize |-> renderSize, renderPixelAspect |-> renderPixelAspect,
     sceneState |-> sceneState]

----------------------------------------------------------------------------
\* do_render.

\* What the host answers to one rt.render call.  log_scan is what
\* were_there_render_errors does with vraylog.txt: it finds no error line
\* ("none"), finds one ("error"), fails in strptime ("ValueError") or fails in
\* open() or on a line without a bracket ("Error").  The log is read only for a
\* canceled frame and the file only for one that was not canceled; the fields
\* the code does not read are held at one value.
LogScans == {"none", "error", "ValueError", "Error"}

RenderOutcomes ==
    {o \in [canceled : BOOLEAN, log_scan : LogScans, exists : BOOLEAN, old : BOOLEAN] :
        /\ o.canceled => (~o.exists /\ ~o.old)
        /\ ~o.canceled => o.log_scan = "none"
        /\ o.old => o.exists}

\* vray_log_error is set (lines 1745-1758).
vray_log_error(o) ==
    IF ~o.canceled
    THEN IF o.exists THEN o.old ELSE TRUE
    ELSE o.log_scan = "error"

\* Mutant: a missing output file is raised instead of returned.
do_render_raises_on_missing_file(o) ==
    IF o.canceled /\ o.log_scan \in {"ValueError", "Error"} THEN o.log_scan
    ELSE IF ~o.canceled /\ ~o.exists THEN "ValueError"
    ELSE "none"

\* The exception do_render lets through, "none" if it returns.
do_render_raises(o) ==
    IF o.canceled /\ o.log_scan \in {"ValueError", "Error"} THEN o.log_scan ELSE "none"

\* Mutant: a canceled frame is returned as canceled without looking at the log.
do_render_ignoring_log(o) ==
    IF ~o.canceled /\ ~vray_log_error(o) THEN 0
    ELSE IF o.canceled THEN 1
    ELSE 2

\* The value do_render returns (lines 1760-1775).
do_render(o) ==
    IF ~o.canceled /\ ~vray_log_error(o) THEN 0
    ELSE IF o.canceled /\ ~vray_log_error(o) THEN 1
    ELSE 2

NoRender == [row |-> 0, x |-> 0, pre_check |-> FALSE, canceled_before |-> 0,
             outcome |-> [canceled |-> FALSE, log_scan |-> "none", exists |-> FALSE, old |-> FALSE],
             returned |-> FALSE, render_result |-> 0, formatted_time |-> 0, now |-> 0]

----------------------------------------------------------------------------
\* check_VFB_settings: whether to go on, whether the render-settings panel was
\* opened here, and whether the panel is open afterwards.  answer is what
\* warn_render_settings_open returns: True, False, or None for a closed prompt.
\* Mutant: the prompt is shown, and its answer obeyed, in the commit pass too.
check_VFB_settings_in_any_pass(vray, problem_settings, is_open, is_pre_check, answer) ==
    LET message == IF vray THEN problem_settings ELSE TRUE
        opens == vray /\ ~is_open
    IN  [continue_with_render |-> IF message THEN Truthy(answer) ELSE TRUE,
         close_renderSceneDialog |-> opens,
         is_open |-> (is_open \/ opens),
         prompts |-> IF message
                     THEN {[kind |-> "precondition", answer |-> answer]} ELSE {}]
check_VFB_settings(vray, problem_settings, is_open, is_pre_check, answer) ==
    LET message == IF vray THEN problem_settings ELSE TRUE
        opens == vray /\ ~is_open
    IN  [continue_with_render |-> IF message /\ is_pre_check THEN Truthy(answer) ELSE TRUE,
         close_renderSceneDialog |-> opens,
         is_open |-> (is_open \/ opens),
         prompts |-> IF message /\ is_pre_check
                     THEN {[kind |-> "precondition", answer |-> answer]} ELSE {}]

----------------------------------------------------------------------------
\* Pieces of main.

\* Mutant: the commit pass goes on whatever the pre-check call returned.
precheck_passed_always(v) == TRUE

\* Line 1781: the commit pass goes on only after a truthy pre-check result.
precheck_passed(v) == Truthy(v)

\* Mutant: the pre_check test of line 1861 is lost.
calls_do_render_in_any_pass(is_pre_check) == ~DEBUG_disable_rendering

\* Lines 1861-1864: the frame is handed to do_render.
calls_do_render(is_pre_check) == ~is_pre_check /\ ~DEBUG_disable_rendering

\* Mutant: every frame that did not succeed is counted.
count_canceled_any_failure(count, render_result) ==
    IF render_result # 0 THEN count + 1 ELSE count

\* Lines 1871-1872.
count_canceled(count, render_result) ==
    IF render_result = 1 THEN count + 1 ELSE count

\* Mutant: the limit is passed rather than reached.
cancel_limit_passed(count) ==
    max_canceled_before_exit # 0 /\ count > max_canceled_before_exit

\* Lines 1876 and 1883.
cancel_limit_reached(count) ==
    max_canceled_before_exit # 0 /\ count >= max_canceled_before_exit

\* Line 1891: continue with the next row.
row_after_error(r) == r + 1

\* The for loop of line 1802 at row r: another iteration, or the code after it.
loop_pc(r) == IF r > Len(table) THEN "finish" ELSE "row"

\* Lines 1897-1905: the value of the pass and its closing message.
pass_result(is_pre_check, queue_canceled, error, total) ==
    IF ~is_pre_check /\ ~queue_canceled THEN True
    ELSE IF is_pre_check /\ ~error THEN PyInt(total)
    ELSE IF is_pre_check /\ error THEN False
    ELSE None

pass_message(is_pre_check, queue_canceled, error) ==
    IF ~is_pre_check /\ ~queue_canceled THEN "Rendering done!"
    ELSE IF is_pre_check /\ ~error THEN "No errors found!"
    ELSE IF is_pre_check /\ error THEN "Error(s) found. Canceled render!"
    ELSE "Canceled render queue!"

\* A pass returns v.  The pre-check call returns into line 1781 of the outer call.
Return(v, message) ==
    IF pre_check
    THEN /\ precheck_result' = v
         /\ IF precheck_passed(v)
            THEN /\ pc' = "main"
                 /\ pass' = "commit"
                 /\ last_log' = "Starting batch render..."
                 /\ UNCHANGED result
            ELSE /\ pc' = "done"
                 /\ result' = None
                 /\ last_log' = message
                 /\ UNCHANGED pass
    ELSE /\ result' = v
         /\ pc' = "done"
         /\ last_log' = message
         /\ UNCHANGED <<precheck_result, pass>>

\* An exception that no handler of start_batch_render catches.
Crash ==
    /\ pc' = "crashed"
    /\ result' = Raised
    /\ UNCHANGED <<precheck_result, pass, last_log>>

\* Lines 1879-1887, the end of an entry's frame loop.
EndOfEntry(canceled, original) ==
    /\ renderSize' = original
    /\ IF cancel_limit_reached(canceled) /\ ~pre_check
       THEN /\ render_queue_canceled' = TRUE
            /\ pc' = "finish"
            /\ last_log' = "Canceled render queue!"
            /\ UNCHANGED row_id
       ELSE /\ row_id' = row_id + 1
            /\ pc' = loop_pc(row_id + 1)
            /\ UNCHANGED <<render_queue_canceled, last_log>>

\* Lines 1888-1891.
ExceptValueError ==
    /\ python_render_error' = TRUE
    /\ row_id' = row_after_error(row_id)
    /\ pc' = loop_pc(row_after_error(row_id))

\* No helper is being called on its own while the handler runs.
NoCall == [fn |-> "none"]

\* The dialog is not under study while the handler or a helper runs alone,
\* and neither is the log window.
NoDialog == [phase |-> "none"]

NoWorker == [pc |-> "none"]

----------------------------------------------------------------------------
Init ==
    /\ table \in Tables
    /\ renderSceneDialog_open \in BOOLEAN
    /\ pc = "idle"
    /\ pass = "none"
    /\ row_id = 0
    /\ x = 0
    /\ total_rows_to_render = 0
    /\ rendered_rows = 0
    /\ canceled_renders = 0
    /\ render_queue_canceled = FALSE
    /\ python_render_error = FALSE
    /\ close_renderSceneDialog = FALSE
    /\ precheck_result = Pending
    /\ result = Pending
    /\ last_log = ""
    /\ last = NoRender
    /\ checked = {}
    /\ frame_failed = FALSE
    /\ renderSize = <<640, 480>>
    /\ renderPixelAspect = "1.0"
    /\ sceneState = ""
    /\ original_renderSize = renderSize
    /\ before_entry = HostSettings
    /\ prompts = {}
    /\ clock = 0
    /\ formatted_time = 0
    /\ helper = NoCall
    /\ ret = <<>>
    /\ dialog = NoDialog
    /\ worker = NoWorker

\* btnRender.clicked: start_batch_render(False), whose main at once calls
\* start_batch_render(True) (lines 1778-1780).
Invoke ==
    /\ pc = "idle"
    /\ UNCHANGED <<fnVars, guiVars>>
    /\ pc' = "main"
    /\ pass' = "precheck"
    /\ last_log' = "Starting render pre-check..."
    /\ UNCHANGED <<table, renderSceneDialog_open, row_id, x, total_rows_to_render,
                   rendered_rows, canceled_renders, render_queue_canceled,
                   python_render_error, close_renderSceneDialog, precheck_result,
                   result, last, checked, frame_failed, hostVars,
                   original_renderSize, before_entry, prompts, clock, formatted_time>>

\* Lines 1786-1801 of a pass: check_VFB_settings and the loop's variables.
MainPrologue ==
    /\ pc = "main"
    /\ UNCHANGED <<fnVars, guiVars>>
    /\ \E vray \in BOOLEAN, problem_settings \in BOOLEAN, answer \in {True, False, None} :
        LET checkd == check_VFB_settings(vray, problem_settings, renderSceneDialog_open,
                                         pre_check, answer)
        IN  /\ renderSceneDialog_open' = checkd.is_open
            /\ prompts' = checkd.prompts
            /\ close_renderSceneDialog' = checkd.close_renderSceneDialog
            /\ render_queue_canceled' = FALSE
            /\ python_render_error' = FALSE
            /\ total_rows_to_render' = IF pre_check THEN 0 ELSE precheck_result.val
            /\ IF ~checkd.continue_with_render
               THEN /\ Return(None, last_log)
                    /\ UNCHANGED <<row_id, rendered_rows, canceled_renders, checked>>
               ELSE /\ row_id' = 1
                    /\ rendered_rows' = 0
                    /\ canceled_renders' = 0
                    /\ checked' = {}
                    /\ pc' = loop_pc(1)
                    /\ UNCHANGED <<pass, precheck_result, result, last_log>>
    /\ UNCHANGED <<table, x, last, frame_failed, hostVars, original_renderSize,
                   before_entry, clock, formatted_time>>

\* `if rowProperties['Use']:` (line 1805).
Use_checked_or_not(entry) == TRUE

Use_checked(entry) == entry.Use

\* One iteration of the row loop up to the frame loop (lines 1802-1857), and
\* the end of the entry when it has no frame.
RowStep ==
    /\ pc = "row"
    /\ UNCHANGED <<fnVars, guiVars>>
    /\ LET entry == table[row_id] IN
       IF ~Use_checked(entry)
       THEN /\ row_id' = row_id + 1
            /\ pc' = loop_pc(row_id + 1)
            /\ UNCHANGED <<total_rows_to_render, checked, python_render_error,
                           rendered_rows, x, render_queue_canceled, precheck_result,
                           result, pass, last_log, hostVars, original_renderSize,
                           before_entry, prompts, formatted_time>>
       ELSE /\ total_rows_to_render' =
                  IF pre_check THEN total_rows_to_render + 1 ELSE total_rows_to_render
            /\ checked' = checked \cup {row_id}
            /\ before_entry' = HostSettings
            /\ \E host \in HostFactsFor(entry, pre_check),
                  loaded \in PresetSizes(entry) :
                LET outcome == prepare_entry(entry, host, pre_check)
                    settings == entry_settings(entry, host, loaded)
                IN
                /\ prompts' = name_prompts(entry, host, pre_check)
                /\ formatted_time' =
                      IF outcome = "ok" THEN strftime(clock) ELSE formatted_time
                /\ renderPixelAspect' = settings.renderPixelAspect
                /\ sceneState' = settings.sceneState
                /\ original_renderSize' =
                      IF host.camera THEN renderSize ELSE original_renderSize
                /\ CASE outcome = "ValueError" ->
                        /\ ExceptValueError
                        /\ renderSize' = settings.renderSize
                        /\ UNCHANGED <<rendered_rows, x, render_queue_canceled,
                                       precheck_result, result, pass, last_log>>
                  [] outcome = "UnboundLocalError" ->
                        /\ Crash
                        /\ renderSize' = settings.renderSize
                        /\ UNCHANGED <<rendered_rows, x, render_queue_canceled,
                                       python_render_error, row_id>>
                  [] outcome = "ok" ->
                        /\ rendered_rows' = rendered_rows + 1
                        /\ UNCHANGED <<python_render_error, precheck_result, result, pass>>
                        /\ IF Len(get_frame_range(entry.Range).frames) = 0
                           THEN /\ EndOfEntry(canceled_renders, renderSize)
                                /\ UNCHANGED x
                           ELSE /\ x' = 1
                                /\ pc' = "frame"
                                /\ renderSize' = settings.renderSize
                                /\ UNCHANGED <<row_id, render_queue_canceled, last_log>>
    /\ UNCHANGED <<table, renderSceneDialog_open, canceled_renders,
                   close_renderSceneDialog, last, frame_failed, clock>>

\* One iteration of the frame loop (lines 1858-1877), and the end of the entry
\* after its last iteration.
FrameStep ==
    /\ pc = "frame"
    /\ UNCHANGED <<fnVars, guiVars>>
    /\ LET frame_range == get_frame_range(table[row_id].Range).frames
           AfterFrame(canceled) ==
               IF cancel_limit_reached(canceled) \/ x = Len(frame_range)
               THEN /\ EndOfEntry(canceled, original_renderSize)
                    /\ UNCHANGED x
               ELSE /\ x' = x + 1
                    /\ UNCHANGED <<pc, row_id, render_queue_canceled, last_log,
                                   renderSize>>
       IN
       IF calls_do_render(pre_check)
       THEN \E o \in RenderOutcomes :
              LET call == [row |-> row_id, x |-> x, pre_check |-> pre_check,
                           canceled_before |-> canceled_renders, outcome |-> o,
                           returned |-> do_render_raises(o) = "none",
                           render_result |-> IF do_render_raises(o) = "none"
                                             THEN do_render(o) ELSE 0,
                           formatted_time |-> file_timestamp(formatted_time, clock),
                           now |-> strftime(clock)]
              IN
              /\ last' = call
              /\ CASE do_render_raises(o) = "ValueError" ->
                        /\ ExceptValueError
                        /\ UNCHANGED <<canceled_renders, frame_failed, x,
                                       render_queue_canceled, precheck_result, result,
                                       pass, last_log, renderSize>>
                   [] do_render_raises(o) = "Error" ->
                        /\ Crash
                        /\ UNCHANGED <<canceled_renders, frame_failed, x,
                                       render_queue_canceled, python_render_error,
                                       row_id, renderSize>>
                   [] do_render_raises(o) = "none" ->
                        /\ canceled_renders' = count_canceled(canceled_renders, do_render(o))
                        /\ frame_failed' = (frame_failed \/ do_render(o) = 2)
                        /\ AfterFrame(count_canceled(canceled_renders, do_render(o)))
                        /\ UNCHANGED <<python_render_error, precheck_result, result, pass>>
       ELSE /\ AfterFrame(canceled_renders)
            /\ UNCHANGED <<last, canceled_renders, frame_failed, python_render_error,
                           precheck_result, result, pass>>
    /\ \E exr_dupes \in DupeCounts(pre_check), png_dupes \in DupeCounts(pre_check) :
          prompts' = file_prompts(exr_dupes, png_dupes, pre_check)
    /\ UNCHANGED <<table, renderSceneDialog_open, total_rows_to_render, rendered_rows,
                   close_renderSceneDialog, checked, renderPixelAspect, sceneState,
                   original_renderSize, before_entry, clock, formatted_time>>

\* Lines 1893-1905, and for the pre-check call the return into line 1781.
FinishPass ==
    /\ pc = "finish"
    /\ UNCHANGED <<fnVars, guiVars>>
    /\ renderSceneDialog_open' =
          IF close_renderSceneDialog THEN FALSE ELSE renderSceneDialog_open
    /\ Return(pass_result(pre_check, render_queue_canceled, python_render_error,
                          total_rows_to_render),
              pass_message(pre_check, render_queue_canceled, python_render_error))
    /\ prompts' = {}
    /\ UNCHANGED <<table, row_id, x, total_rows_to_render, rendered_rows,
                   canceled_renders, render_queue_canceled, python_render_error,
                   close_renderSceneDialog, last, checked, frame_failed, hostVars,
                   original_renderSize, before_entry, clock, formatted_time>>

\* The host's clock advances while the handler waits for the host.
Tick ==
    /\ pc \in {"main", "row", "frame", "finish"}
    /\ clock < MaxClock
    /\ clock' = clock + 1
    /\ UNCHANGED <<handlerVars, fnVars, guiVars>>

Next == Invoke \/ MainPrologue \/ RowStep \/ FrameStep \/ FinishPass

Spec == Init /\ [][Next]_vars

\* The same handler on tables whose entries carry overrides.
InitHost ==
    /\ table \in HostTables
    /\ renderSceneDialog_open \in BOOLEAN
    /\ pc = "idle"
    /\ pass = "none"
    /\ row_id = 0
    /\ x = 0
    /\ total_rows_to_render = 0
    /\ rendered_rows = 0
    /\ canceled_renders = 0
    /\ render_queue_canceled = FALSE
    /\ python_render_error = FALSE
    /\ close_renderSceneDialog = FALSE
    /\ precheck_result = Pending
    /\ result = Pending
    /\ last_log = ""
    /\ last = NoRender
    /\ checked = {}
    /\ frame_failed = FALSE
    /\ renderSize = <<640, 480>>
    /\ renderPixelAspect = "1.0"
    /\ sceneState = ""
    /\ original_renderSize = renderSize
    /\ before_entry = HostSettings
    /\ prompts = {}
    /\ clock = 0
    /\ formatted_time = 0
    /\ helper = NoCall
    /\ ret = <<>>
    /\ dialog = NoDialog
    /\ worker = NoWorker

SpecHost == InitHost /\ [][Next]_vars

\* The same handler while the clock runs, on tables of enabled two-frame
\* entries.
ClockTables ==
    UNION {[1..n -> {e \in HostEntries : e.Use /\ NoOverride(e)}] : n \in 0..MaxClockRows}

InitClock ==
    /\ table \in ClockTables
    /\ renderSceneDialog_open = FALSE
    /\ pc = "idle"
    /\ pass = "none"
    /\ row_id = 0
    /\ x = 0
    /\ total_rows_to_render = 0
    /\ rendered_rows = 0
    /\ canceled_renders = 0
    /\ render_queue_canceled = FALSE
    /\ python_render_error = FALSE
    /\ close_renderSceneDialog = FALSE
    /\ precheck_result = Pending
    /\ result = Pending
    /\ last_log = ""
    /\ last = NoRender
    /\ checked = {}
    /\ frame_failed = FALSE
    /\ renderSize = <<640, 480>>
    /\ renderPixelAspect = "1.0"
    /\ sceneState = ""
    /\ original_renderSize = renderSize
    /\ before_entry = HostSettings
    /\ prompts = {}
    /\ clock = 0
    /\ formatted_time = 0
    /\ helper = NoCall
    /\ ret = <<>>
    /\ dialog = NoDialog
    /\ worker = NoWorker

NextClock == Next \/ Tick

SpecClock == InitClock /\ [][NextClock]_vars

----------------------------------------------------------------------------
\* main's helpers called on their own, each once, on arguments drawn from
\* small sets.

\* The texts of one or two digits.
Texts ==
    {<<d>> : d \in 0..MaxDigit} \cup {<<c, d>> : c \in 0..MaxDigit, d \in 0..MaxDigit}

\* What get_frame_range can return: for a literal, and in the Default modes a
\* list of picked frames or a range with a step.
FrameRanges ==
    {get_frame_range(<<s, e>>) : s \in Texts, e \in Texts}
    \cup {py_range(a, b + 1, step) : a \in 0..MaxDigit, b \in 0..MaxDigit, step \in 1..2}
    \cup {py_list(<<a, b>>) : a \in 0..MaxDigit, b \in 0..MaxDigit}

SHOT_EXR == [directory |-> "D:\\renders", filename |-> "shot", file_extension |-> ".exr"]
SHOT_PNG == [directory |-> "D:\\renders", filename |-> "shot", file_extension |-> ".png"]
TIME == "24-01-01T00.00.00"

\* The disks: any of the names the probe can ask for may exist.
Disks ==
    SUBSET {file_path_for(o, 1, TIME, n) : o \in {SHOT_EXR, SHOT_PNG}, n \in 0..MaxDupes}

\* The pieces of a part: nothing, a letter, or a frame number.
Pieces == {<<>>, <<LETTER>>} \cup {<<d>> : d \in 1..MaxPicked}

\* The parts: a single piece, "A-B", and "A-A-A".
Parts ==
    {<<p>> : p \in Pieces} \cup (Pieces \X Pieces) \cup {<<p, p, p>> : p \in Pieces}

NumberStrings == UNION {[1..n -> Parts] : n \in 1..MaxParts}

\* The pieces a Name cell is made of here, and the names.
NamePieces ==
    {text_piece(t) : t \in {DEFAULT_TEXT, CAM01_SHOT010, <<".">>, <<"a", ":", "b">>}}
    \cup {flag_piece("{Camera}", e) : e \in BOOLEAN}
    \cup {flag_piece(f, TRUE) : f \in {"{Scene State}", "{State Set}", "{Pixel Aspect}"}}

Names == UNION {[1..n -> NamePieces] : n \in 0..MaxTokens}

\* The values of a row's columns: a camera called Cam, Default or nothing,
\* with or without the V-Ray ending; a scene state or none.
Rows ==
    [Camera : [chars : {<<"C", "a", "m">>, DEFAULT_TEXT, <<>>}, vray : BOOLEAN],
     Scene_State : {None, str(<<"N", "i", "g", "h", "t">>), str(default_text)},
     Render_Preset : {str(<<>>)},
     Layer_Preset : {str(<<>>)},
     Resolution_Display : {str(<<"6", "4", "0", "x", "4", "8", "0">>)},
     Pixel_Aspect : {str(DEFAULT_TEXT), str(<<"2", ".", "0">>)}]

\* The prompt is answered when it is shown.
NameCalls ==
    {c \in [fn : {"get_valid_filename"}, name : Names, row : Rows,
            pre_check : BOOLEAN, answer : {True, False, None}] :
        ~c.pre_check => c.answer = None}

Calls ==
    NameCalls \cup
    [fn : {"parse_number_string"}, number_string : NumberStrings] \cup
    [fn : {"get_frame_range"}, frame_range : Texts \X Texts]
    \cup [fn : {"get_frame_range_display"}, frame_range : FrameRanges]
    \cup [fn : {"get_output_path"}, output_path : {DEFAULT_PATH_TEXT, LITERAL_PATH},
          directory_exists : BOOLEAN]
    \cup [fn : {"prevent_duplicate_files"}, output_path : {SHOT_EXR, SHOT_PNG},
          frame : {1}, formatted_time : {TIME}, disk : Disks]
    \cup [fn : {"frame_files"}, frame : {1}, formatted_time : {TIME}, disk : Disks]

InitFn ==
    /\ table = <<>>
    /\ renderSceneDialog_open = FALSE
    /\ pc = "idle"
    /\ pass = "none"
    /\ row_id = 0
    /\ x = 0
    /\ total_rows_to_render = 0
    /\ rendered_rows = 0
    /\ canceled_renders = 0
    /\ render_queue_canceled = FALSE
    /\ python_render_error = FALSE
    /\ close_renderSceneDialog = FALSE
    /\ precheck_result = Pending
    /\ result = Pending
    /\ last_log = ""
    /\ last = NoRender
    /\ checked = {}
    /\ frame_failed = FALSE
    /\ renderSize = <<640, 480>>
    /\ renderPixelAspect = "1.0"
    /\ sceneState = ""
    /\ original_renderSize = renderSize
    /\ before_entry = HostSettings
    /\ prompts = {}
    /\ clock = 0
    /\ formatted_time = 0
    /\ helper \in Calls
    /\ ret = <<>>
    /\ dialog = NoDialog
    /\ worker = NoWorker

Returns(fn, value) ==
    /\ helper.fn = fn
    /\ ret = <<>>
    /\ ret' = <<value>>
    /\ UNCHANGED <<helper, handlerVars, clock, guiVars>>

Call_get_frame_range ==
    /\ helper.fn = "get_frame_range"
    /\ Returns("get_frame_range", get_frame_range(helper.frame_range))

Call_get_frame_range_display ==
    /\ helper.fn = "get_frame_range_display"
    /\ Returns("get_frame_range_display", get_frame_range_display(helper.frame_range))

Call_get_output_path ==
    /\ helper.fn = "get_output_path"
    /\ Returns("get_output_path",
               get_output_path(helper.output_path, helper.directory_exists))

Call_prevent_duplicate_files ==
    /\ helper.fn = "prevent_duplicate_files"
    /\ Returns("prevent_duplicate_files",
               prevent_duplicate_files(helper.output_path, helper.frame,
                                       helper.formatted_time, helper.disk))

\* Lines 1859-1860: the two file names of one frame, each from its own call
\* of prevent_duplicate_files on the same disk.
frame_files(output_path_exr, output_path_png, frame, time, disk) ==
    [outputfile_exr |-> prevent_duplicate_files(output_path_exr, frame, time, disk),
     outputfile_png |-> prevent_duplicate_files(output_path_png, frame, time, disk)]

Call_frame_files ==
    /\ helper.fn = "frame_files"
    /\ Returns("frame_files",
               frame_files(SHOT_EXR, SHOT_PNG, helper.frame, helper.formatted_time,
                           helper.disk))

Call_parse_number_string ==
    /\ helper.fn = "parse_number_string"
    /\ Returns("parse_number_string", parse_number_string(helper.number_string))

Call_get_valid_filename ==
    /\ helper.fn = "get_valid_filename"
    /\ Returns("get_valid_filename",
               get_valid_filename_text(helper.name, helper.row, helper.pre_check,
                                       helper.answer))

NextFn ==
    \/ Call_get_valid_filename
    \/ Call_parse_number_string
    \/ Call_get_frame_range
    \/ Call_get_frame_range_display
    \/ Call_get_output_path
    \/ Call_prevent_duplicate_files
    \/ Call_frame_files

SpecFn == InitFn /\ [][NextFn]_vars

----------------------------------------------------------------------------
\* The dialog: its camera list, its table and the handlers of its buttons
\* and parameter fields.

MaxCameras == 2
MaxIds == 2
MaxDialogRows == 2

\* A stable identity is a Python value: None, the text rt.getUserProp reads
\* from an object's user properties, or the uuid.UUID object uuid.uuid4()
\* returns.  A text and a UUID object are never equal.
None_id == [type |-> "NoneType", v |-> 0]

str_id(n) == [type |-> "str", v |-> n]

uuid4(n) == [type |-> "UUID", v |-> MaxIds + n]

truthy(id) == id.type # "NoneType"

\* rt.setUserProp writes the value into the object's user-property buffer,
\* which holds text: what rt.getUserProp reads back is the text of the
\* value.
setUserProp(value) == [type |-> "str", v |-> value.v]

CameraNames == {"CamA", "CamB"}

\* The cameras of the scene, in the order of rt.cameras, each with its name
\* and its identity property (a copied camera carries the identity of its
\* original).
Scenes ==
    UNION {[1..n -> [name : CameraNames,
                     prop : {None_id} \cup {str_id(i) : i \in 1..MaxIds}]] :
           n \in 0..MaxCameras}

\* get_item_unique_id(obj): the property, or ValueError when it is falsy.
get_item_unique_id(node) ==
    IF truthy(node.prop) THEN [raised |-> "", id |-> node.prop]
    ELSE [raised |-> "ValueError", id |-> None_id]

\* generate_unique_id(obj): a new uuid on the object; the caller receives
\* the UUID object itself.
generate_unique_id(node, n) ==
    [node |-> [node EXCEPT !.prop = setUserProp(uuid4(n))], unique_ID |-> uuid4(n)]

\* `if node_unique_id and node_unique_id not in camera_unique_ids` (line 532).
keeps_identity_unchecked(got, camera_unique_ids) == got.raised = ""

keeps_identity(got, camera_unique_ids) ==
    got.raised = "" /\ got.id \notin camera_unique_ids

\* The loop of _build_gui over rt.cameras (lines 521-536): a camera keeps
\* its identity when it has one that no earlier camera has, otherwise
\* it is given identities until one is new.  `made` counts the uuids made
\* so far, which is what makes each one different from the others.
RECURSIVE build_cameras(_, _, _, _, _)
build_cameras(scene, i, cameras, camera_unique_ids, made) ==
    IF i > Len(scene) THEN [scene |-> scene, cameras |-> cameras, made |-> made]
    ELSE LET got == get_item_unique_id(scene[i])
             kept == keeps_identity(got, camera_unique_ids)
             fresh == generate_unique_id(scene[i], made + 1)
             node_unique_id == IF kept THEN got.id ELSE fresh.unique_ID
             node == IF kept THEN scene[i] ELSE fresh.node
         IN  build_cameras([scene EXCEPT ![i] = node], i + 1,
                           Append(cameras, [text |-> node.name, data |-> node_unique_id]),
                           camera_unique_ids \cup {node_unique_id},
                           IF kept THEN made ELSE made + 1)

\* cameras.sort(key=lambda c: (c[0], c[1])) (line 539): tuples compare by
\* name and, between equal names, by identity; a text and a UUID object
\* have no order, and comparing them raises TypeError.
name_rank(name) == CASE name = "CamA" -> 1 [] name = "CamB" -> 2 [] OTHER -> 0

key_less(a, b) ==
    \/ name_rank(a.text) < name_rank(b.text)
    \/ a.text = b.text /\ a.data.v < b.data.v

sort_raises(cameras) ==
    \E i, j \in DOMAIN cameras :
        /\ i # j
        /\ cameras[i].text = cameras[j].text
        /\ cameras[i].data.type # cameras[j].data.type

sorted_cameras(cameras) == SortSeq(cameras, key_less)

----------------------------------------------------------------------------
\* The table.  A row holds the checkbox of column Use and the cells of the
\* columns Name, Camera, Range and Resolution (the other text columns
\* behave as Range does); the Camera cell carries the hidden value.  A cell
\* that holds no item at all reads NO_ITEM.
NO_ITEM == "<no item>"

\* getHiddenValue of a cell set with setItem, or of a cell without item.
plain_item == None_id

\* add_row (lines 1140-1200): a checked checkbox, "Default" cells and the
\* first camera of the dropdown with its identity; itemText(0) and
\* itemData(0) of an empty dropdown are "" and None.
default_row(cmbCamera) ==
    [Use |-> TRUE,
     Name |-> "Default",
     Camera |-> IF Len(cmbCamera) > 0 THEN cmbCamera[1].text ELSE "",
     Camera_Hidden |-> IF Len(cmbCamera) > 0 THEN cmbCamera[1].data ELSE None_id,
     Range |-> "Default",
     Resolution |-> "Default"]

insert_row(rows, at, row) ==
    [i \in 1..(Len(rows) + 1) |->
        IF i < at THEN rows[i] ELSE IF i = at THEN row ELSE rows[i - 1]]

remove_row(rows, at) ==
    [i \in 1..(Len(rows) - 1) |-> IF i < at THEN rows[i] ELSE rows[i + 1]]

add_row(d) ==
    [d EXCEPT !.rows = Append(d.rows, default_row(d.cmbCamera)),
              !.system_modified = FALSE,
              !.selected = Len(d.rows) + 1,
              !.raised = ""]

\* duplicate_row (lines 1204-1257), one row selected: the copy is inserted
\* below the row, cell by cell; at the Camera cell
\* `column_name == "Camera" and hidden_value is None or ''` raises
\* ValueError when the hidden value is None, which leaves the cells after
\* Camera without items and skips the reset of line 1257.
camera_id_missing(hidden_value) == hidden_value = None_id

duplicate_row(d) ==
    IF d.selected = 0
    THEN [d EXCEPT !.system_modified = FALSE, !.raised = ""]
    ELSE LET row == d.rows[d.selected]
         IN  IF camera_id_missing(row.Camera_Hidden)
             THEN [d EXCEPT !.rows = insert_row(d.rows, d.selected + 1,
                                                [row EXCEPT !.Range = NO_ITEM,
                                                            !.Resolution = NO_ITEM]),
                            !.system_modified = TRUE,
                            !.raised = "ValueError"]
             ELSE [d EXCEPT !.rows = insert_row(d.rows, d.selected + 1, row),
                            !.system_modified = FALSE,
                            !.selected = d.selected + 1,
                            !.raised = ""]

\* delete_row (lines 1259-1277): nothing without a selection.
delete_row(d) ==
    IF d.selected = 0 THEN [d EXCEPT !.raised = ""]
    ELSE LET rows == remove_row(d.rows, d.selected)
         IN  [d EXCEPT !.rows = rows,
                       !.system_modified = FALSE,
                       !.selected = IF Len(rows) = 0 THEN 0
                                    ELSE IF d.selected - 1 < 1 THEN 1
                                    ELSE d.selected - 1,
                       !.raised = ""]

\* move_row (lines 1314-1346): the texts and the checkbox state of the row
\* are copied into items_dict, the row is removed, a row is inserted at
\* to_row and filled with QCheckBox and QTableWidgetItem(str(value)).
item_text(cell) == IF cell = NO_ITEM THEN "" ELSE cell

move_row(d, from_row, to_row) ==
    LET row == d.rows[from_row]
        items_dict == [Use |-> row.Use,
                       Name |-> item_text(row.Name),
                       Camera |-> item_text(row.Camera),
                       Camera_Hidden |-> plain_item,
                       Range |-> item_text(row.Range),
                       Resolution |-> item_text(row.Resolution)]
    IN  [d EXCEPT !.rows = insert_row(remove_row(d.rows, from_row), to_row, items_dict),
                  !.system_modified = FALSE,
                  !.selected = to_row,
                  !.raised = ""]

\* move_up, move_down (lines 1279-1312), one row selected.
move_up(d) ==
    IF d.selected # 0 /\ d.selected - 1 >= 1
    THEN move_row(d, d.selected, d.selected - 1)
    ELSE [d EXCEPT !.raised = ""]

move_down(d) ==
    IF d.selected # 0 /\ d.selected + 1 <= Len(d.rows)
    THEN move_row(d, d.selected, d.selected + 1)
    ELSE [d EXCEPT !.raised = ""]

\* The handlers of the parameter fields.  Each does nothing while
\* system_modified is set; `selected_rows[0]` is None without a selection.
set_cell(d, column, value) ==
    IF d.rows[d.selected][column] = NO_ITEM THEN d.rows
    ELSE [d.rows EXCEPT ![d.selected][column] = value]

\* frame_range_changed, resolution_changed, name_changed (lines 1998-2104):
\* the reset of system_modified is inside `if selected_rows[0]:`.
reset_in_selected_branch(d, column, value) ==
    IF d.system_modified THEN [d EXCEPT !.raised = ""]
    ELSE IF d.selected = 0 THEN [d EXCEPT !.system_modified = TRUE, !.raised = ""]
    ELSE [d EXCEPT !.rows = set_cell(d, column, value),
                   !.system_modified = FALSE,
                   !.raised = ""]

frame_range_changed(d, value) == reset_in_selected_branch(d, "Range", value)

resolution_changed(d, value) == reset_in_selected_branch(d, "Resolution", value)

name_changed(d, value) == reset_in_selected_branch(d, "Name", value)

\* camera_changed (lines 2134-2158): `for selection in
\* self.table_get_selected(None)` iterates (None, None) without a selection
\* and `selection[0]` raises TypeError before the reset.
camera_changed(d, index) ==
    IF d.system_modified THEN [d EXCEPT !.raised = ""]
    ELSE IF d.selected = 0
    THEN [d EXCEPT !.system_modified = TRUE, !.raised = "TypeError"]
    ELSE [d EXCEPT !.rows = [d.rows EXCEPT ![d.selected].Camera = d.cmbCamera[index].text,
                                           ![d.selected].Camera_Hidden =
                                                d.cmbCamera[index].data],
                   !.system_modified = FALSE,
                   !.raised = ""]

\* json.dumps and json.loads on the values of a saved cell: texts, booleans
\* and None have an encoding, a uuid.UUID object has none (TypeError).
json_dumps(type, value) ==
    CASE type = "bool" -> [json |-> "bool", b |-> value]
      [] type = "text" -> [json |-> "string", s |-> value]
      [] type = "NoneType" -> [json |-> "null"]
      [] type = "str" -> [json |-> "string", id |-> value.v]
      [] OTHER -> [json |-> "TypeError"]

json_loads(text) ==
    CASE text.json = "bool" -> text.b
      [] text.json = "null" -> None_id
      [] "id" \in DOMAIN text -> str_id(text.id)
      [] OTHER -> text.s

\* saveDialogData (lines 860-913): [val, hidden_value] of every cell;
\* item.text() of a cell without item raises AttributeError, json.dumps of a
\* UUID object raises TypeError, and then nothing is stored.
row_data(row) ==
    LET null == json_dumps("NoneType", None_id)
    IN  [Use |-> <<json_dumps("bool", row.Use), null>>,
         Name |-> <<json_dumps("text", row.Name), null>>,
         Camera |-> <<json_dumps("text", row.Camera),
                      json_dumps(row.Camera_Hidden.type, row.Camera_Hidden)>>,
         Range |-> <<json_dumps("text", row.Range), null>>,
         Resolution |-> <<json_dumps("text", row.Resolution), null>>]

saveDialogData(d) ==
    IF \E i \in DOMAIN d.rows : NO_ITEM \in {d.rows[i].Range, d.rows[i].Resolution}
    THEN [d EXCEPT !.raised = "AttributeError"]
    ELSE IF \E i \in DOMAIN d.rows : row_data(d.rows[i]).Camera[2].json = "TypeError"
    THEN [d EXCEPT !.raised = "TypeError"]
    ELSE [d EXCEPT !.saved = <<[i \in DOMAIN d.rows |-> row_data(d.rows[i])]>>,
                   !.raised = ""]

\* get_item_by_id and get_item_by_name over the scene: the index of the
\* first node, 0 for the ValueError.
get_item_by_id(scene, unique_id) ==
    IF \E i \in DOMAIN scene : scene[i].prop = unique_id
    THEN CHOOSE i \in DOMAIN scene :
            /\ scene[i].prop = unique_id
            /\ \A j \in 1..(i - 1) : scene[j].prop # unique_id
    ELSE 0

get_item_by_name(scene, name) ==
    IF \E i \in DOMAIN scene : scene[i].name = name
    THEN CHOOSE i \in DOMAIN scene :
            /\ scene[i].name = name
            /\ \A j \in 1..(i - 1) : scene[j].name # name
    ELSE 0

\* restoreDialogData (lines 791-858), one saved row: add_row, then every
\* column from its saved [value, hidden_value]; a text with a hidden value
\* is looked up by identity, then by name.
restored_camera(scene, value, hidden_value) ==
    IF ~(truthy(hidden_value) /\ hidden_value.type = "str")
    THEN [Camera |-> value, Camera_Hidden |-> hidden_value]
    ELSE LET by_id == get_item_by_id(scene, hidden_value)
             by_name == get_item_by_name(scene, value)
         IN  IF by_id # 0
             THEN [Camera |-> scene[by_id].name, Camera_Hidden |-> hidden_value]
             ELSE IF by_name = 0
             THEN [Camera |-> "*** ERROR (" \o value \o ") ***",
                   Camera_Hidden |-> hidden_value]
             ELSE [Camera |-> scene[by_name].name,
                   Camera_Hidden |->
                       IF get_item_unique_id(scene[by_name]).raised = ""
                       THEN get_item_unique_id(scene[by_name]).id
                       ELSE hidden_value]

restored_row(scene, data) ==
    LET camera == restored_camera(scene, json_loads(data.Camera[1]),
                                  json_loads(data.Camera[2]))
    IN  [Use |-> json_loads(data.Use[1]),
         Name |-> json_loads(data.Name[1]),
         Camera |-> camera.Camera,
         Camera_Hidden |-> camera.Camera_Hidden,
         Range |-> json_loads(data.Range[1]),
         Resolution |-> json_loads(data.Resolution[1])]

\* No saved data: rt.globalVars.get raises RuntimeError, caught at line 684.
restoreDialogData(scene, saved) ==
    IF saved = <<>> THEN <<>>
    ELSE [i \in DOMAIN saved[1] |-> restored_row(scene, saved[1][i])]

----------------------------------------------------------------------------
\* The dialog as a state machine: it is opened on a scene, the user works
\* on the table, and closing it saves the table.
ClosedDialog(scene) ==
    [phase |-> "closed", scene |-> scene, cmbCamera |-> <<>>, rows |-> <<>>,
     selected |-> 0, system_modified |-> FALSE, saved |-> <<>>, raised |-> "",
     made |-> 0]

InitDialog ==
    /\ table = <<>>
    /\ renderSceneDialog_open = FALSE
    /\ pc = "idle"
    /\ pass = "none"
    /\ row_id = 0
    /\ x = 0
    /\ total_rows_to_render = 0
    /\ rendered_rows = 0
    /\ canceled_renders = 0
    /\ render_queue_canceled = FALSE
    /\ python_render_error = FALSE
    /\ close_renderSceneDialog = FALSE
    /\ precheck_result = Pending
    /\ result = Pending
    /\ last_log = ""
    /\ last = NoRender
    /\ checked = {}
    /\ frame_failed = FALSE
    /\ renderSize = <<640, 480>>
    /\ renderPixelAspect = "1.0"
    /\ sceneState = ""
    /\ original_renderSize = renderSize
    /\ before_entry = HostSettings
    /\ prompts = {}
    /\ clock = 0
    /\ formatted_time = 0
    /\ helper = NoCall
    /\ ret = <<>>
    /\ dialog \in {ClosedDialog(scene) : scene \in Scenes}
    /\ worker = NoWorker

\* Scenes whose cameras have different names.
NamedScenes == {scene \in Scenes : \A i, j \in DOMAIN scene : i < j => scene[i].name = "CamA" /\ scene[j].name = "CamB"}

InitTable ==
    /\ table = <<>>
    /\ renderSceneDialog_open = FALSE
    /\ pc = "idle"
    /\ pass = "none"
    /\ row_id = 0
    /\ x = 0
    /\ total_rows_to_render = 0
    /\ rendered_rows = 0
    /\ canceled_renders = 0
    /\ render_queue_canceled = FALSE
    /\ python_render_error = FALSE
    /\ close_renderSceneDialog = FALSE
    /\ precheck_result = Pending
    /\ result = Pending
    /\ last_log = ""
    /\ last = NoRender
    /\ checked = {}
    /\ frame_failed = FALSE
    /\ renderSize = <<640, 480>>
    /\ renderPixelAspect = "1.0"
    /\ sceneState = ""
    /\ original_renderSize = renderSize
    /\ before_entry = HostSettings
    /\ prompts = {}
    /\ clock = 0
    /\ formatted_time = 0
    /\ helper = NoCall
    /\ ret = <<>>
    /\ dialog \in {ClosedDialog(scene) : scene \in NamedScenes}
    /\ worker = NoWorker

Handler(after) ==
    /\ dialog.phase = "open"
    /\ dialog' = after
    /\ UNCHANGED <<handlerVars, clock, fnVars, worker>>

\* BatchRenderDialog.__init__: _build_gui makes the camera list, then the
\* saved table is restored and update_element_values runs (lines 680-686).
\* A TypeError of the sort leaves no dialog.
Open ==
    /\ dialog.phase = "closed"
    /\ LET built == build_cameras(dialog.scene, 1, <<>>, {}, dialog.made)
           rows == restoreDialogData(built.scene, dialog.saved)
       IN  dialog' =
             IF sort_raises(built.cameras)
             THEN [dialog EXCEPT !.phase = "crashed", !.scene = built.scene,
                                 !.made = built.made, !.raised = "TypeError"]
             ELSE [dialog EXCEPT !.phase = "open", !.scene = built.scene,
                                 !.made = built.made,
                                 !.cmbCamera = sorted_cameras(built.cameras),
                                 !.rows = rows,
                                 !.selected = Len(rows),
                                 !.system_modified = FALSE,
                                 !.raised = ""]
    /\ UNCHANGED <<handlerVars, clock, fnVars, worker>>

Click_btnAdd ==
    /\ Len(dialog.rows) < MaxDialogRows
    /\ Handler(add_row(dialog))

Click_btnDuplicate ==
    /\ Len(dialog.rows) < MaxDialogRows
    /\ Handler(duplicate_row(dialog))

Click_btnDelete ==
    /\ dialog.phase = "open"
    /\ Handler(delete_row(dialog))

Click_btnUp ==
    /\ dialog.phase = "open"
    /\ Handler(move_up(dialog))

Click_btnDown ==
    /\ dialog.phase = "open"
    /\ Handler(move_down(dialog))

\* The user selects row r, or clears the selection (r = 0).
\* table_selection_changed (lines 936-964) selects the previous row again
\* when the selection was cleared, and does nothing while system_modified
\* is set.
table_selection_changed(d, r) ==
    IF r = 0 /\ ~d.system_modified /\ d.selected # 0
    THEN [d EXCEPT !.raised = ""]
    ELSE [d EXCEPT !.selected = r, !.raised = ""]

SelectRow ==
    /\ dialog.phase = "open"
    /\ \E r \in 0..Len(dialog.rows) : Handler(table_selection_changed(dialog, r))

\* The user clicks the checkbox of a row.
ToggleUse ==
    /\ dialog.phase = "open"
    /\ \E r \in DOMAIN dialog.rows :
          Handler([dialog EXCEPT !.rows[r].Use = ~dialog.rows[r].Use, !.raised = ""])

\* The user changes a parameter field: the frame range, the image size,
\* the name, the camera.
Edit_frame_range ==
    /\ dialog.phase = "open"
    /\ \E value \in {"Default", "1:2"} : Handler(frame_range_changed(dialog, value))

Edit_resolution ==
    /\ dialog.phase = "open"
    /\ \E value \in {"Default", "640x480"} : Handler(resolution_changed(dialog, value))

Edit_name ==
    /\ dialog.phase = "open"
    /\ \E value \in {"Default", "shot"} : Handler(name_changed(dialog, value))

Pick_camera ==
    /\ dialog.phase = "open"
    /\ \E index \in DOMAIN dialog.cmbCamera : Handler(camera_changed(dialog, index))

\* on_close (lines 781-783): the dialog is finished and its table saved.
on_close ==
    /\ dialog.phase = "open"
    /\ dialog' = [saveDialogData(dialog) EXCEPT !.phase = "closed"]
    /\ UNCHANGED <<handlerVars, clock, fnVars, worker>>

NextDialog ==
    \/ Open
    \/ Click_btnAdd
    \/ Click_btnDuplicate
    \/ Click_btnDelete
    \/ Click_btnUp
    \/ Click_btnDown
    \/ SelectRow
    \/ Edit_frame_range
    \/ Edit_resolution
    \/ Edit_name
    \/ Pick_camera

SpecDialog == InitTable /\ [][NextDialog]_vars

\* The dialog over several sessions, the user adding rows, picking
\* cameras and ticking checkboxes.
NextSave ==
    \/ Open
    \/ Click_btnAdd
    \/ SelectRow
    \/ ToggleUse
    \/ Pick_camera
    \/ on_close

SpecSave == InitDialog /\ [][NextSave]_vars

\* The dialog opened and closed on every scene.
NextCameras == Open \/ on_close

SpecCameras == InitDialog /\ [][NextCameras]_vars

----------------------------------------------------------------------------
\* The log window: BatchRender.py writes messages into a named pipe, the
\* Worker of secondary_window.py reads them in its own thread and hands them
\* to the window.

MaxMessages == 3

SHUTDOWN == [TYPE |-> "COMMAND", VALUE |-> "SHUTDOWN"]

\* What log and log_open send.
Messages ==
    {[TYPE |-> "LOG", VALUE |-> "Rendering done!"],
     [TYPE |-> "LOG", VALUE |-> "Canceled render queue!"],
     [TYPE |-> "COMMAND", VALUE |-> "OPEN"]}

\* setup_log has made the pipe and started the window's process, and waits
\* in ConnectNamedPipe (lines 77-96); the Worker's thread has started run.
StartedWorker ==
    [pc |-> "CreateFile", abort |-> FALSE, server |-> "listening", pipe |-> <<>>,
     window |-> <<>>, finished |-> 0, reads_after_shutdown |-> 0, sent |-> 0]

InitWorker ==
    /\ table = <<>>
    /\ renderSceneDialog_open = FALSE
    /\ pc = "idle"
    /\ pass = "none"
    /\ row_id = 0
    /\ x = 0
    /\ total_rows_to_render = 0
    /\ rendered_rows = 0
    /\ canceled_renders = 0
    /\ render_queue_canceled = FALSE
    /\ python_render_error = FALSE
    /\ close_renderSceneDialog = FALSE
    /\ precheck_result = Pending
    /\ result = Pending
    /\ last_log = ""
    /\ last = NoRender
    /\ checked = {}
    /\ frame_failed = FALSE
    /\ renderSize = <<640, 480>>
    /\ renderPixelAspect = "1.0"
    /\ sceneState = ""
    /\ original_renderSize = renderSize
    /\ before_entry = HostSettings
    /\ prompts = {}
    /\ clock = 0
    /\ formatted_time = 0
    /\ helper = NoCall
    /\ ret = <<>>
    /\ dialog = NoDialog
    /\ worker = StartedWorker

WorkerStep(after) ==
    /\ worker' = after
    /\ UNCHANGED <<handlerVars, clock, fnVars, dialog>>

\* send_to_log (lines 98-126) of a LOG or OPEN message: one message written
\* into the connected pipe.
send_to_log ==
    /\ worker.server = "connected"
    /\ worker.sent < MaxMessages
    /\ \E data \in Messages :
          WorkerStep([worker EXCEPT !.pipe = Append(worker.pipe, data),
                                    !.sent = worker.sent + 1])

\* log_shutdown: the SHUTDOWN message is written (line 113), then the
\* server's handle is closed (line 121).
log_shutdown_WriteFile ==
    /\ worker.server = "connected"
    /\ WorkerStep([worker EXCEPT !.pipe = Append(worker.pipe, SHUTDOWN),
                                 !.server = "closing"])

log_shutdown_CloseHandle ==
    /\ worker.server = "closing"
    /\ WorkerStep([worker EXCEPT !.server = "closed"])

\* Worker.run, `while not abort:` and CreateFile (lines 51-61).
Worker_CreateFile ==
    /\ worker.pc = "CreateFile"
    /\ ~worker.abort
    /\ worker.server = "listening"
    /\ WorkerStep([worker EXCEPT !.pc = "ReadFile", !.server = "connected"])

\* One iteration of `while True:` (lines 65-80): ReadFile returns a message,
\* which is emitted to the window; SHUTDOWN sets abort, emits finished and
\* breaks out of the for loop over the lines of the message, which leaves the
\* thread in `while True:`.  On a pipe that is empty and closed ReadFile
\* raises error 109, and the except clause breaks out of `while not abort:`.
after_message(w, data) ==
    IF data = SHUTDOWN
    THEN [w EXCEPT !.abort = TRUE, !.finished = w.finished + 1]
    ELSE w

ReadFile(w) ==
    LET called == [w EXCEPT !.reads_after_shutdown =
                                IF w.abort THEN w.reads_after_shutdown + 1
                                ELSE w.reads_after_shutdown]
    IN  IF w.pipe # <<>>
        THEN after_message([called EXCEPT !.pipe = Tail(w.pipe),
                                          !.window = Append(w.window, Head(w.pipe))],
                           Head(w.pipe))
        ELSE [called EXCEPT !.pc = "returned"]

Worker_ReadFile ==
    /\ worker.pc = "ReadFile"
    /\ worker.pipe # <<>> \/ worker.server = "closed"
    /\ WorkerStep(ReadFile(worker))

\* LogWindow.exit (lines 360-363), the slot of finished in the window's
\* thread: sys.exit ends the process, and the Worker's thread with it.
LogWindow_exit ==
    /\ worker.finished > 0
    /\ worker.pc # "exited"
    /\ WorkerStep([worker EXCEPT !.pc = "exited"])

NextWorker ==
    \/ send_to_log
    \/ log_shutdown_WriteFile
    \/ log_shutdown_CloseHandle
    \/ Worker_CreateFile
    \/ Worker_ReadFile
    \/ LogWindow_exit

SpecWorker == InitWorker /\ [][NextWorker]_vars

----------------------------------------------------------------------------
\* The claims.

\* C1: during the pre-check pass the host render primitive (rt.render, reached
\* through do_render) is never called, whatever the table holds and however
\* many frames an entry has.
C1_NoRenderInPrecheck ==
    /\ ~last.pre_check
    /\ pass = "precheck" => last = NoRender

\* C1 witness: the pre-check pass is at the second frame of an entry and no
\* render call was made.
C1_Witness ==
    /\ pass = "precheck"
    /\ pc = "frame"
    /\ x = 2
    /\ last = NoRender

\* C2: a render call is issued only in the commit pass, and the commit pass
\* starts only from the end of a pre-check pass that went through every enabled
\* entry with no validation error and counted at least one entry; after an
\* error, a count of zero or a declined prompt it never starts.
C2_CommitOnlyAfterCleanPrecheck ==
    /\ [](last # NoRender => pass = "commit")
    /\ [][(pass' = "commit" /\ pass # "commit") =>
            /\ pass = "precheck"
            /\ pc = "finish"
            /\ ~python_render_error
            /\ checked = EnabledRows
            /\ total_rows_to_render >= 1]_vars

\* C2 witness: a render call was issued.
C2_Witness ==
    /\ pass = "commit"
    /\ last # NoRender
    /\ precheck_result = PyInt(Cardinality(EnabledRows))

\* C3: a pre-check pass in which an entry raised a validation error still goes
\* through every enabled entry of the table.
C3_PrecheckExhaustive ==
    (pass = "precheck" /\ python_render_error /\ pc \in {"done", "crashed"})
        => checked = EnabledRows

\* The frames of the entry the loop is at.
FramesOfRow == get_frame_range(table[row_id].Range).frames

\* C4: in the commit pass, once canceled_renders has reached the threshold no
\* further render call is issued in the run.
C4_NoRenderAfterLimit ==
    [][canceled_renders >= max_canceled_before_exit => last' = last]_vars

\* C4 witness: the run ended with the threshold reached while the entry had a
\* frame left and an enabled entry followed.
C4_Witness ==
    /\ pc = "done"
    /\ pass = "commit"
    /\ canceled_renders = max_canceled_before_exit
    /\ x < Len(FramesOfRow)
    /\ row_id < Len(table)
    /\ table[row_id + 1].Use

\* C5 as stated: the abort is triggered by the cancellation of a frame that was
\* attempted with two cancellations already counted.
C5_AbortOnThirdCancel ==
    render_queue_canceled =>
        (last.render_result = 1 /\ last.canceled_before = max_canceled_before_exit)

\* C5 amended: the abort is triggered by the second canceled frame.  The queue
\* is aborted exactly when a frame attempted with one cancellation counted is
\* classified canceled, no frame is attempted after it, and a frame canceled
\* with no cancellation counted is followed by the entry's next frame.
C5_AbortOnSecondCancel ==
    /\ [](render_queue_canceled <=>
            (last.returned /\ last.render_result = 1
                /\ last.canceled_before = max_canceled_before_exit - 1))
    /\ [](render_queue_canceled => pc \in {"finish", "done"})
    /\ [][(last' # last /\ last'.returned /\ last'.render_result = 1
            /\ last'.canceled_before < max_canceled_before_exit - 1
            /\ x < Len(FramesOfRow))
          => (pc' = "frame" /\ row_id' = row_id /\ x' = x + 1)]_vars

\* C5 witness: the second cancellation of the run aborted the queue.
C5_Witness ==
    /\ render_queue_canceled
    /\ pc = "done"
    /\ last.canceled_before = 1
    /\ canceled_renders = 2

\* C6: the commit pass stops before every enabled entry was processed only when
\* the cancellation threshold was reached, and an enabled entry with a literal
\* output path is skipped, it does not end the run.
C6_OnlyLimitStopsQueue ==
    /\ (pass = "commit" /\ pc \in {"done", "crashed"} /\ ~render_queue_canceled)
          => checked = EnabledRows
    /\ ~(pc = "crashed" /\ table[row_id].Output_Path # DEFAULT_PATH_TEXT)

\* C7: a commit pass in which an entry was skipped for an error or a frame
\* failed is not reported the way a pass in which every frame succeeded is
\* (return value True, "Rendering done!").
C7_ErrorsReportedDistinctly ==
    (pc = "done" /\ pass = "commit" /\ (python_render_error \/ frame_failed))
        => ~(result = True /\ last_log = "Rendering done!")

\* C8 as stated: a frame whose render call returned canceled is classified 1
\* and adds one to canceled_renders, whatever the log scan found.
C8_CanceledWhateverLog ==
    (last.returned /\ last.outcome.canceled)
        => (last.render_result = 1 /\ canceled_renders = last.canceled_before + 1)

\* C8 amended: a frame whose render call returned canceled is classified 1 and
\* adds exactly one to canceled_renders when the scan of the host error log
\* finds no error line since the render started; when the scan finds one the
\* frame is classified 2 and canceled_renders is unchanged.
C8_CanceledByLog ==
    (last # NoRender /\ last.outcome.canceled) =>
        /\ last.outcome.log_scan = "none" =>
              /\ last.returned
              /\ last.render_result = 1
              /\ canceled_renders = last.canceled_before + 1
        /\ last.outcome.log_scan = "error" =>
              /\ last.returned
              /\ last.render_result = 2
              /\ canceled_renders = last.canceled_before

\* C8 witness: a canceled frame with a clean log brought the counter from 1 to 2.
C8_Witness ==
    /\ last.outcome.canceled
    /\ last.outcome.log_scan = "none"
    /\ last.canceled_before = 1
    /\ canceled_renders = 2

\* C9: a frame that was not canceled and whose output file exists but is 60
\* seconds old or older is classified 0.
C9_StaleFileIsSuccess ==
    (last.returned /\ ~last.outcome.canceled /\ last.outcome.exists /\ last.outcome.old)
        => last.render_result = 0

\* C10: a frame that was not canceled and whose output file is missing is
\* classified 2 by a returned value, canceled_renders is unchanged by it, and
\* the next frame of the same entry is attempted.
C10_MissingFileFails ==
    /\ []((last # NoRender /\ ~last.outcome.canceled /\ ~last.outcome.exists) =>
            /\ last.returned
            /\ last.render_result = 2
            /\ canceled_renders = last.canceled_before)
    /\ [][(last' # last /\ ~last'.outcome.canceled /\ ~last'.outcome.exists
            /\ x < Len(FramesOfRow))
          => (pc' = "frame" /\ row_id' = row_id /\ x' = x + 1
                /\ calls_do_render(pre_check'))]_vars

\* C10 witness: the first frame of an entry failed for a missing file with one
\* cancellation counted, and the loop is at the entry's second frame.
C10_Witness ==
    /\ last # NoRender
    /\ ~last.outcome.canceled
    /\ ~last.outcome.exists
    /\ last.canceled_before = 1
    /\ pc = "frame"
    /\ row_id = last.row
    /\ x = last.x + 1

----------------------------------------------------------------------------
\* Save, override, restore of the host's settings.

\* A step in which the processing of an enabled entry ends other than by an
\* exception that stops the whole run: the loop moves to the next row or
\* leaves for the end of the pass.
EntryEnds ==
    /\ pc \in {"row", "frame"}
    /\ row_id \in EnabledRows
    /\ pc' # "crashed"
    /\ (row_id' # row_id \/ pc' = "finish")

\* C11: when the processing of an enabled entry ends (frames completed,
\* ValueError of the entry, or queue abort), the host's render width and height
\* are the ones the host had when the processing of that entry began.
C11_SizeRestored ==
    [][EntryEnds => renderSize' = before_entry'.renderSize]_vars

\* C12: when the processing of an enabled entry ends, in either pass, the
\* host's pixel aspect and restored scene state are the ones the host had before
\* that entry.
C12_AspectAndSceneRestored ==
    [][EntryEnds => /\ renderPixelAspect' = before_entry'.renderPixelAspect
                    /\ sceneState' = before_entry'.sceneState]_vars

\* A step in which a pass of start_batch_render returns to its caller.
PassReturns ==
    /\ pc \in {"main", "finish"}
    /\ (pc' = "done" \/ (pass = "precheck" /\ pass' = "commit"))

\* C13: a pass that opened the render-settings panel has closed it again when
\* it returns, whether it returns after the loop, after a queue abort, or on a
\* negative answer to the precondition prompt.
C13_PanelClosedAtReturn ==
    [][PassReturns /\ close_renderSceneDialog' => ~renderSceneDialog_open']_vars

----------------------------------------------------------------------------
\* Prompts.

\* The precondition prompt answered No, or dismissed.
NegativeAnswer == [kind : {"precondition"}, answer : {False, None}]

C15_NoPromptInCommit == pass = "commit" => prompts = {}

\* The commit pass has rendered a frame of an entry whose name made the
\* pre-check pass ask about blank values.
C15_Witness ==
    /\ pass = "commit"
    /\ last.row # 0
    /\ has_blank_values(table[last.row])
    /\ prompts = {}

----------------------------------------------------------------------------
\* The timestamp of the file names.

\* C16 as stated: any two frames rendered one after the other in a run carry
\* the same timestamp.
C16_OneTimestampPerRun ==
    [][last.row # 0 /\ last'.row # 0
          => last'.formatted_time = last.formatted_time]_vars

\* C16 as the code has it: the frames of one entry carry the same timestamp,
\* whatever the clock does between them.
C16_OneTimestampPerEntry ==
    [][last.row # 0 /\ last'.row = last.row
          => last'.formatted_time = last.formatted_time]_vars

\* The second frame of an entry was rendered in a later second than the one
\* its file names carry.
C16_Witness ==
    /\ last.x = 2
    /\ last.now # last.formatted_time

----------------------------------------------------------------------------
\* The helpers.

Returned(fn) == helper.fn = fn /\ ret # <<>>

\* C17: the path prevent_duplicate_files returns does not exist; it is the
\* name without suffix when that is free, and otherwise the name with " (N)"
\* for the smallest N >= 1 that is free: " (1)" when only the unsuffixed file
\* exists, " (2)" when that one exists too.
C17_SmallestFreeName ==
    Returned("prevent_duplicate_files") =>
        LET o == helper.output_path
            disk == helper.disk
            path(n) == file_path_for(o, helper.frame, helper.formatted_time, n)
            stem == "shot_0001_24-01-01T00.00.00"
            in_dir(name) == "D:\\renders\\" \o name \o o.file_extension
        IN  /\ ret[1].file_path \notin disk
            /\ \E n \in 0..(MaxDupes + 1) :
                  /\ ret[1].file_path = path(n)
                  /\ \A k \in 0..(n - 1) : path(k) \in disk
            /\ in_dir(stem) \notin disk
                  => ret[1].file_name = stem \o o.file_extension
            /\ in_dir(stem) \in disk /\ in_dir(stem \o " (1)") \notin disk
                  => ret[1].file_name = stem \o " (1)" \o o.file_extension
            /\ {in_dir(stem), in_dir(stem \o " (1)")} \subseteq disk
                  /\ in_dir(stem \o " (2)") \notin disk
                  => ret[1].file_name = stem \o " (2)" \o o.file_extension

\* The unsuffixed file and the one with " (1)" existed, and " (2)" came back.
C17_Witness ==
    /\ Returned("prevent_duplicate_files")
    /\ ret[1].dupe_count = 2

\* C18: for a literal output path whose directory exists, get_output_path
\* returns the two paths.
C18_LiteralPathResolves ==
    (/\ Returned("get_output_path")
     /\ helper.output_path # DEFAULT_PATH_TEXT
     /\ helper.directory_exists)
        => ret[1] = "ok"

\* C19: for a literal "start:end", get_frame_range yields the one frame start
\* when start = end, and otherwise the integers from start to end in
\* increasing order, none when start > end.
C19_LiteralRange ==
    Returned("get_frame_range") =>
        LET start == int(helper.frame_range[1])
            end == int(helper.frame_range[2])
            frames == ret[1].frames
        IN  IF start = end
            THEN frames = <<start>>
            ELSE /\ Len(frames) = IF start > end THEN 0 ELSE end - start + 1
                 /\ \A i \in 1..Len(frames) : frames[i] = start + i - 1

\* "01:1": the two texts differ, the two numbers do not.
C19_Witness ==
    /\ Returned("get_frame_range")
    /\ helper.frame_range = <<(<<0, 1>>), (<<1>>)>>
    /\ ret[1].frames = <<1>>

\* C20: the display of a step-1 range is "A-B" with A its first and B its last
\* frame, "1-3" for "1:3"; the display of a stepped range or of a list of
\* frames that are not contiguous is the list of its frames.
C20_DisplayShowsLastFrame ==
    Returned("get_frame_range_display") =>
        LET r == helper.frame_range
            n == Len(r.frames)
        IN  /\ (r.type = "range" /\ r.step = 1 /\ n > 1)
                  => ret[1] = ToString(r.frames[1]) \o "-" \o ToString(r.frames[n])
            /\ r = get_frame_range(<<(<<1>>), (<<3>>)>>) => ret[1] = "1-3"
            /\ (n > 1 /\ r.frames[n] - r.frames[1] # n - 1)
                  => ret[1] = join_frames(r.frames)

\* The sum of a sequence of numbers.
RECURSIVE Sum(_)
Sum(numbers) == IF Len(numbers) = 0 THEN 0 ELSE numbers[1] + Sum(Tail(numbers))

\* C21: parse_number_string gives the frames of the parts in written order,
\* every part a single integer or an inclusive range A-B, without sorting and
\* with repeated numbers kept; a part that is neither makes it raise
\* ValueError, the exception main's loop takes for an entry error.
C21_PartsInWrittenOrder ==
    Returned("parse_number_string") =>
        LET parts == helper.number_string
            good(part) ==
                /\ Len(part) \in {1, 2}
                /\ \A i \in 1..Len(part) :
                      Len(part[i]) = 1 /\ part[i][1] \in 0..9
            count(part) ==
                IF Len(part) = 1 THEN 1
                ELSE IF part[2][1] < part[1][1] THEN 0
                ELSE part[2][1] - part[1][1] + 1
            offset(k) == Sum([i \in 1..(k - 1) |-> count(parts[i])])
            got == ret[1].result
        IN  IF \A k \in 1..Len(parts) : good(parts[k])
            THEN /\ ret[1].raised = "none"
                 /\ \A k \in 1..Len(parts) :
                       \A j \in 1..count(parts[k]) :
                           /\ offset(k) + j <= Len(got)
                           /\ got[offset(k) + j] = parts[k][1][1] + j - 1
                 /\ Len(got) = offset(Len(parts) + 1)
                 /\ parts = <<(<<(<<2>>)>>), (<<(<<1>>), (<<2>>)>>)>>
                       => got = <<2, 1, 2>>
            ELSE ret[1].raised = "ValueError"

\* "2,1-2" came back as 2, 1, 2.
C21_Witness ==
    /\ Returned("parse_number_string")
    /\ helper.number_string = <<(<<(<<2>>)>>), (<<(<<1>>), (<<2>>)>>)>>
    /\ ret[1].result = <<2, 1, 2>>

\* The flags written in a name, in whatever case, and the name get_valid_filename
\* starts from.
FlagsWritten(name) == {name[i].flag : i \in {j \in 1..Len(name) : name[j].kind = "flag"}}

StartingName(name) ==
    IF name = <<text_piece(DEFAULT_TEXT)>> THEN <<flag_piece("{Camera}", TRUE)>> ELSE name

\* What a flag stands for in a row: the column's text, the camera's without
\* the V-Ray ending, nothing for None.
Resolved(flag, row) ==
    IF flag = "{Camera}" THEN row.Camera.chars
    ELSE value_text(flag_value(flag, row))

IsBlank(text) == text = <<>> \/ lower(text) = default_text

\* C22: get_valid_filename starts from "{Camera}" for the raw name "Default",
\* puts the resolved value, or nothing when that value is empty or the word
\* "default", in the place of every flag written in the name in whatever case,
\* and sets the blank-value flag exactly when a flag written in the name has
\* such a value.
C22_FlagsResolved ==
    Returned("get_valid_filename") =>
        LET name == StartingName(helper.name)
            row == helper.row
            expected(piece) ==
                IF piece.kind = "text" THEN piece.chars
                ELSE IF IsBlank(Resolved(piece.flag, row)) THEN <<>>
                ELSE Resolved(piece.flag, row)
            whole == IF Len(name) = 0 THEN <<>>
                     ELSE IF Len(name) = 1 THEN expected(name[1])
                     ELSE IF Len(name) = 2 THEN expected(name[1]) \o expected(name[2])
                     ELSE expected(name[1]) \o expected(name[2]) \o expected(name[3])
        IN  /\ Len(name) <= 3 => ret[1].render_name = whole
            /\ ret[1].blank_values
                  <=> \E f \in FlagsWritten(name) : IsBlank(Resolved(f, row))

\* "{camera}_..." written in lower case was resolved to the camera's name, and
\* the flag of a Default pixel aspect beside it set the blank-value flag.
C22_Witness ==
    /\ Returned("get_valid_filename")
    /\ helper.name = <<flag_piece("{Camera}", FALSE), flag_piece("{Pixel Aspect}", TRUE)>>
    /\ helper.row.Camera.chars = <<"C", "a", "m">>
    /\ helper.row.Pixel_Aspect = str(DEFAULT_TEXT)
    /\ ret[1].render_name = <<"C", "a", "m">>
    /\ ret[1].blank_values

C24_SaveRestoreRoundTrip ==
    [][(dialog.phase = "closed" /\ dialog'.phase = "open")
          => dialog'.rows = dialog.rows]_vars

\* C25: render calls are issued one after the other in table order of the
\* enabled entries and, within an entry, in the order of its frame sequence
\* from its first frame; no frame position is submitted twice in a run (the
\* loops only go forward, also after an error or an abort); a row whose Use
\* box is unchecked is neither validated nor rendered.
C25_SequentialAtMostOnce ==
    /\ [](checked \subseteq EnabledRows)
    /\ [](last # NoRender =>
            /\ ~last.pre_check
            /\ table[last.row].Use
            /\ pc = "row" => last.row < row_id)
    /\ [][last' # last =>
            /\ last'.row = row_id
            /\ last'.x = x
            /\ \/ last.row < last'.row /\ last'.x = 1
               \/ last.row = last'.row /\ last'.x = last.x + 1]_vars
    /\ [][(pc = "frame" /\ pc' = "frame") => (row_id' = row_id /\ x' = x + 1)]_vars
    /\ [][(pc \in {"row", "frame"} /\ pc' = "row") => row_id' = row_id + 1]_vars

\* C25 witness: the run rendered the second frame of row 3 after row 1, row 2
\* being unchecked.
C25_Witness ==
    /\ pc = "done"
    /\ pass = "commit"
    /\ Len(table) = 3
    /\ table[1].Use /\ ~table[2].Use
    /\ last.row = 3
    /\ last.x = 2
    /\ checked = {1, 3}

\* C26: once the dialog has built its camera list, every camera of the
\* list has a non-empty stable identity and no two cameras of the list have
\* the same one.
C26_CameraIdentitiesUnique ==
    dialog.phase = "open" =>
        /\ \A i \in DOMAIN dialog.cmbCamera : truthy(dialog.cmbCamera[i].data)
        /\ \A i, j \in DOMAIN dialog.cmbCamera :
              i # j => dialog.cmbCamera[i].data # dialog.cmbCamera[j].data

\* A list of two cameras, one that kept its identity and one that was
\* given a new one.
C26_Witness ==
    /\ dialog.phase = "open"
    /\ Len(dialog.cmbCamera) = 2
    /\ \E i, j \in DOMAIN dialog.cmbCamera :
          /\ dialog.cmbCamera[i].data.type = "str"
          /\ dialog.cmbCamera[j].data.type = "UUID"

\* C27: the EXR path and the PNG path chosen for one frame carry the same
\* duplicate suffix (and the same stem, frame and timestamp), whichever of
\* the files exist on disk.
C27_SameSuffixForBoth ==
    Returned("frame_files") =>
        LET exr == ret[1].outputfile_exr
            png == ret[1].outputfile_png
        IN  /\ exr.dupe_count = png.dupe_count
            /\ exr.file_name =
                  file_name_for(SHOT_EXR, helper.frame, helper.formatted_time, exr.dupe_count)
            /\ png.file_name =
                  file_name_for(SHOT_PNG, helper.frame, helper.formatted_time, exr.dupe_count)

\* A step of move_up or move_down that moved the selected row.
MoveStep ==
    /\ dialog.phase = "open"
    /\ dialog.selected # 0
    /\ dialog' \in {move_up(dialog), move_down(dialog)}
    /\ dialog'.selected # dialog.selected

\* C28: the row moved by move_up or move_down has, at its new place, the
\* values it had in every column and its hidden camera identity, so its
\* camera is looked up at render time exactly as before the move.
C28_MoveKeepsEntry ==
    [][MoveStep =>
          /\ dialog'.rows[dialog'.selected] = dialog.rows[dialog.selected]
          /\ get_item_by_id(dialog'.scene, dialog'.rows[dialog'.selected].Camera_Hidden)
               = get_item_by_id(dialog.scene, dialog.rows[dialog.selected].Camera_Hidden)]_vars

\* C29: between two handlers of the open dialog system_modified is False.
C29_GuardReset == dialog.phase = "open" => ~dialog.system_modified

\* C30: once the Worker has received SHUTDOWN it has emitted finished exactly
\* once, it calls ReadFile on the pipe no more, and SHUTDOWN is the last
\* message it handed to the window.
C30_NoReadAfterShutdown ==
    /\ worker.pc # "none" => worker.finished <= 1
    /\ (worker.pc # "none" /\ worker.abort) =>
          /\ worker.finished = 1
          /\ worker.reads_after_shutdown = 0
          /\ worker.window[Len(worker.window)] = SHUTDOWN

====
